---- MODULE Spec2Model ----
(***************************************************************************)
(* wordpress-to-zola: the HTML paragraph normalizer (transform_html.rs)    *)
(* and the export-item loop (main.rs, convert).                            *)
(*                                                                         *)
(* A string is a sequence of lexemes.  Each lexeme stands for the exact    *)
(* bytes of its name: a character ("a", "&", the newline) or a piece of    *)
(* markup ("<b>", "</b>", "<!--  -->", "<frameset>", and in output also    *)
(* "<p>", "</p>", "&amp;").  No lexeme is a concatenation of others, so    *)
(* two strings are byte-equal exactly when their sequences are equal.      *)
(***************************************************************************)
EXTENDS Integers, Sequences, FiniteSets, TLC

VARIABLES
    content,    \* transform_html: the argument `content`
    pc,         \* transform_html: position in the function body
    dom,        \* the children of dom.document
    html,       \* the node bound to `html`
    body,       \* the node bound to `body` (its child list is mutated in place)
    i,          \* the scan counter `i`
    texts,      \* the Vec `texts` of (i, text)
    changed,    \* the flag `changed`
    offset,     \* the running `offset`
    done,       \* how many entries of `texts` the second loop has consumed
    ret,        \* the returned String
    nser,       \* history: number of html5ever::serialize calls so far
    items,      \* convert: rss.channel.item
    cpc,        \* convert: position in the loop body
    idx,        \* convert: how many items the loop has consumed
    sections,   \* convert: the HashSet `sections`
    calls       \* convert: the Fs calls made so far, in order

tvars == <<content, pc, dom, html, body, i, texts, changed, offset, done, ret, nser>>
cvars == <<items, cpc, idx, sections, calls>>
vars == <<content, pc, dom, html, body, i, texts, changed, offset, done, ret, nser,
          items, cpc, idx, sections, calls>>

(***************************************************************************)
(* Bounds of the model.                                                    *)
(***************************************************************************)
MaxLen == 6
MaxMarkup == 2

NL == "\n"
CommentLexeme == "<!--  -->"
Chars == {"a", "&", NL}
Markup == {"<b>", "</b>", CommentLexeme, "<frameset>"}

(***************************************************************************)
(* Nodes (markup5ever_rcdom::Node): a type tag, an element name, a text    *)
(* or comment payload and the ordered child list.                          *)
(***************************************************************************)
Node(type, name, contents, children) ==
    [type |-> type, name |-> name, contents |-> contents, children |-> children]

NoNode == Node("None", "", <<>>, <<>>)

Elem(name, children) == Node("Element", name, <<>>, children)

comment_node(s) == Node("Comment", "", s, <<>>)

text_node(text) == Node("Text", "", text, <<>>)

p_node == Node("Element", "p", <<>>, <<>>)

(***************************************************************************)
(* html5ever::parse_document with drop_doctype, on the lexemes above.      *)
(* The tree builder is followed token by token.  `mode` tells where it     *)
(* is: "prelude" (insertion modes before a body exists), "body" or         *)
(* "frameset".  `stack` is the stack of open elements from the root        *)
(* container (body or frameset) upwards, each with the children it has     *)
(* so far; `doc` holds the nodes appended to the Document itself; `fok`    *)
(* is the frameset-ok flag.                                                *)
(***************************************************************************)
Frame(name) == [name |-> name, children |-> <<>>]

ParserInit == [mode |-> "prelude", doc |-> <<>>, stack |-> <<Frame("body")>>, fok |-> TRUE]

\* Character insertion: a character joins a Text node that is the last child.
AppendText(kids, c) ==
    IF Len(kids) > 0 /\ kids[Len(kids)].type = "Text"
    THEN [kids EXCEPT ![Len(kids)].contents = @ \o <<c>>]
    ELSE Append(kids, text_node(<<c>>))

InTop(stack, kids) == [stack EXCEPT ![Len(stack)].children = kids]

TopKids(stack) == stack[Len(stack)].children

\* The current node is popped and becomes the last child of the one below.
PopTop(stack) ==
    LET n == Len(stack)
        below == SubSeq(stack, 1, n - 1)
    IN InTop(below, Append(TopKids(below), Elem(stack[n].name, stack[n].children)))

\* "in body": characters and comments go into the current node, <b> opens
\* a formatting element, </b> closes the current <b> and is ignored when
\* none is open, <frameset> replaces the body while frameset-ok still holds.
BodyStep(acc, tok) ==
    CASE tok = NL -> [acc EXCEPT !.stack = InTop(@, AppendText(TopKids(@), tok))]
      [] tok \in Chars \ {NL} ->
            [acc EXCEPT !.stack = InTop(@, AppendText(TopKids(@), tok)), !.fok = FALSE]
      [] tok = CommentLexeme ->
            [acc EXCEPT !.stack = InTop(@, Append(TopKids(@), comment_node(<<" ", " ">>)))]
      [] tok = "<b>" -> [acc EXCEPT !.stack = Append(@, Frame("b"))]
      [] tok = "</b>" -> IF Len(acc.stack) > 1 THEN [acc EXCEPT !.stack = PopTop(@)] ELSE acc
      [] tok = "<frameset>" ->
            IF acc.fok
            THEN [acc EXCEPT !.mode = "frameset", !.stack = <<Frame("frameset")>>]
            ELSE acc

\* "in frameset": whitespace and comments are inserted, a nested <frameset>
\* is opened, everything else is a parse error and ignored.
FramesetStep(acc, tok) ==
    CASE tok = NL -> [acc EXCEPT !.stack = InTop(@, AppendText(TopKids(@), tok))]
      [] tok = CommentLexeme ->
            [acc EXCEPT !.stack = InTop(@, Append(TopKids(@), comment_node(<<" ", " ">>)))]
      [] tok = "<frameset>" -> [acc EXCEPT !.stack = Append(@, Frame("frameset"))]
      [] OTHER -> acc

\* Before a body exists: comments are appended to the Document, whitespace
\* and stray end tags are dropped, <frameset> makes html > frameset with no
\* body, anything else creates html, head and body and is handled "in body".
PreludeStep(acc, tok) ==
    CASE tok = CommentLexeme -> [acc EXCEPT !.doc = Append(@, comment_node(<<" ", " ">>))]
      [] tok \in {NL, "</b>"} -> acc
      [] tok = "<frameset>" ->
            [acc EXCEPT !.mode = "frameset", !.stack = <<Frame("frameset")>>]
      [] OTHER -> BodyStep([acc EXCEPT !.mode = "body"], tok)

TreeStep(acc, tok) ==
    CASE acc.mode = "prelude" -> PreludeStep(acc, tok)
      [] acc.mode = "body" -> BodyStep(acc, tok)
      [] acc.mode = "frameset" -> FramesetStep(acc, tok)

RECURSIVE TreeBuild(_, _, _)
TreeBuild(acc, toks, k) ==
    IF k > Len(toks) THEN acc ELSE TreeBuild(TreeStep(acc, toks[k]), toks, k + 1)

\* End of file: every open element is closed.
RECURSIVE CloseAll(_)
CloseAll(stack) == IF Len(stack) = 1 THEN stack[1] ELSE CloseAll(PopTop(stack))

\* The children of dom.document for the given input.
parse_document(toks) ==
    LET acc == TreeBuild(ParserInit, toks, 1)
        root == CloseAll(acc.stack)
    IN acc.doc \o <<Elem("html", <<Elem("head", <<>>), Elem(root.name, root.children)>>)>>

(***************************************************************************)
(* html5ever::serialize of a node's children (the default traversal scope  *)
(* of SerializableHandle): text is escaped, elements are written with      *)
(* start and end tag, comments between "<!--" and "-->".                   *)
(***************************************************************************)
EscapeChar(c) == IF c = "&" THEN "&amp;" ELSE c

RECURSIVE EscapeText(_)
EscapeText(s) == IF s = <<>> THEN <<>> ELSE <<EscapeChar(Head(s))>> \o EscapeText(Tail(s))

RECURSIVE JoinChars(_)
JoinChars(s) == IF s = <<>> THEN "" ELSE Head(s) \o JoinChars(Tail(s))

RECURSIVE serialize(_)
serialize(kids) ==
    IF kids = <<>> THEN <<>>
    ELSE LET n == Head(kids)
             here == CASE n.type = "Text" -> EscapeText(n.contents)
                       [] n.type = "Comment" -> <<"<!--" \o JoinChars(n.contents) \o "-->">>
                       [] n.type = "Element" ->
                            <<"<" \o n.name \o ">">> \o serialize(n.children)
                                \o <<"</" \o n.name \o ">">>
         IN here \o serialize(Tail(kids))

(***************************************************************************)
(* find_child_element: the first direct child that is an Element whose     *)
(* local name equals the tag ignoring ASCII case; NoNode stands for the    *)
(* panic at the end of the function.                                       *)
(***************************************************************************)
AsciiLower(s) ==
    CASE s \in {"HTML", "Html"} -> "html"
      [] s \in {"BODY", "Body"} -> "body"
      [] OTHER -> s

eq_str_ignore_ascii_case(a, b) == AsciiLower(a) = AsciiLower(b)

\* Mutant: the name test is lost and the first Element child is returned.
RECURSIVE FindFrom_AnyElement(_, _, _)
FindFrom_AnyElement(children, tag, k) ==
    IF k > Len(children) THEN NoNode
    ELSE IF children[k].type = "Element" THEN children[k]
         ELSE FindFrom_AnyElement(children, tag, k + 1)

RECURSIVE FindFrom(_, _, _)
FindFrom(children, tag, k) ==
    IF k > Len(children) THEN NoNode
    ELSE IF children[k].type = "Element" /\ eq_str_ignore_ascii_case(children[k].name, tag)
         THEN children[k]
         ELSE FindFrom(children, tag, k + 1)

find_child_element(parent, tag) == FindFrom(parent.children, tag, 1)

(***************************************************************************)
(* Regex::new(r"\n\n+"): the leftmost match at or after a position, taken  *)
(* greedily; is_match; split (the pieces between the matches, the last     *)
(* piece always yielded, empty pieces included).  Positions are 1-based;   *)
(* a match covers start .. end - 1.                                        *)
(***************************************************************************)
NoMatch == [start |-> 0, end |-> 0]

\* Mutant: the pattern matches exactly two newlines (r"\n\n" without the +).
RunEnd_ExactlyTwo(text, p) == p

RECURSIVE RunEnd(_, _)
RunEnd(text, p) == IF p <= Len(text) /\ text[p] = NL THEN RunEnd(text, p + 1) ELSE p

RECURSIVE FindRun(_, _)
FindRun(text, from) ==
    IF from + 1 > Len(text) THEN NoMatch
    ELSE IF text[from] = NL /\ text[from + 1] = NL
         THEN [start |-> from, end |-> RunEnd(text, from + 2)]
         ELSE FindRun(text, from + 1)

is_match(text) == FindRun(text, 1) # NoMatch

\* Mutant: only the first match splits the payload, as splitn(&text, 2) does.
SplitFrom_FirstOnly(text, last) ==
    LET m == FindRun(text, last)
    IN IF m = NoMatch THEN <<SubSeq(text, last, Len(text))>>
       ELSE <<SubSeq(text, last, m.start - 1), SubSeq(text, m.end, Len(text))>>

RECURSIVE SplitFrom(_, _)
SplitFrom(text, last) ==
    LET m == FindRun(text, last)
    IN IF m = NoMatch THEN <<SubSeq(text, last, Len(text))>>
       ELSE <<SubSeq(text, last, m.start - 1)>> \o SplitFrom(text, m.end)

\* Mutant: empty pieces are dropped, as a split that skips empty fields does.
split_DropEmpty(text) == SelectSeq(SplitFrom(text, 1), LAMBDA piece : piece # <<>>)

split(text) == SplitFrom(text, 1)

\* itertools::intersperse
RECURSIVE intersperse(_, _)
intersperse(s, sep) ==
    IF Len(s) <= 1 THEN s ELSE <<Head(s), sep>> \o intersperse(Tail(s), sep)

(***************************************************************************)
(* Vec::remove and Vec::insert at a 0-based index.  The index is an isize  *)
(* cast to usize: a negative value becomes larger than any length, so it   *)
(* is out of bounds like any index beyond the end, and the call panics.    *)
(***************************************************************************)
RemoveInBounds(v, at) == at >= 0 /\ at < Len(v)

InsertInBounds(v, at) == at >= 0 /\ at <= Len(v)

VecRemove(v, at) == SubSeq(v, 1, at) \o SubSeq(v, at + 2, Len(v))

VecInsert(v, at, x) == SubSeq(v, 1, at) \o <<x>> \o SubSeq(v, at + 1, Len(v))

(***************************************************************************)
(* transform_html, the pieces of its body.                                 *)
(***************************************************************************)
\* Mutant: the type test is lost and an element is judged by its first child.
IsCandidate_Descending(child) ==
    \/ child.type = "Text" /\ is_match(child.contents)
    \/ /\ child.type = "Element"
       /\ child.children # <<>>
       /\ child.children[1].type = "Text"
       /\ is_match(child.children[1].contents)

\* Lines 33-35: a child is recorded when it is a Text node whose payload
\* matches the pattern.
IsCandidate(child) == child.type = "Text" /\ is_match(child.contents)

\* Mutant: the stale index is used, the running offset is forgotten.
RemoveIndex_Stale(ti, off) == ti

\* Line 47: where the recorded Text node is removed.
RemoveIndex(ti, off) == ti + off

\* Lines 54 and 59: where the next chunk is inserted.
InsertIndex(ti, off) == ti + off + 1

\* Line 50: the pieces of the payload with the separator value between them.
Chunks(text) == intersperse(split(text), <<NL, NL>>)

\* Lines 51-61: the separator value becomes a marker, any other chunk a Text node.
ChunkNode(chunk) == IF chunk = <<NL, NL>> THEN p_node ELSE text_node(chunk)

\* Lines 50-62: the chunks are inserted one by one, the offset grows by one each.
RECURSIVE InsertChunks(_, _, _)
InsertChunks(st, ti, chunks) ==
    IF chunks = <<>> THEN st
    ELSE LET at == InsertIndex(ti, st.offset)
         IN IF ~InsertInBounds(st.children, at) THEN [st EXCEPT !.panic = "insert"]
            ELSE InsertChunks([st EXCEPT !.children = VecInsert(@, at, ChunkNode(Head(chunks))),
                                         !.offset = @ + 1],
                              ti, Tail(chunks))

\* Lines 47-62: one iteration of the second loop, for the match (ti, text).
SpliceOne(kids, off, ti, text) ==
    LET at == RemoveIndex(ti, off)
    IN IF ~RemoveInBounds(kids, at)
       THEN [children |-> kids, offset |-> off, panic |-> "remove"]
       ELSE InsertChunks([children |-> VecRemove(kids, at), offset |-> off - 1, panic |-> ""],
                         ti, Chunks(text))

\* Mutant: the traversal scope includes the body node itself.
Result_IncludeNode(chg, input, node) == IF chg THEN serialize(<<node>>) ELSE input

\* Mutant: the body is serialized whether or not anything changed.
Result_AlwaysSerialize(chg, input, node) == serialize(node.children)

\* Lines 65-73: the serialized body when something changed, else the input.
Result(chg, input, node) == IF chg THEN serialize(node.children) ELSE input

(***************************************************************************)
(* The inputs: every string of at most MaxLen lexemes, at most MaxMarkup   *)
(* of them markup.                                                         *)
(***************************************************************************)
Lexemes == Chars \cup Markup

MarkupCount(s) == Cardinality({k \in DOMAIN s : s[k] \in Markup})

Inputs == {s \in UNION {[1..n -> Lexemes] : n \in 0..MaxLen} : MarkupCount(s) <= MaxMarkup}

ConvertIdle ==
    /\ items = <<>>
    /\ cpc = "idle"
    /\ idx = 0
    /\ sections = {}
    /\ calls = <<>>

Init ==
    /\ content \in Inputs
    /\ pc = "parse"
    /\ dom = NoNode
    /\ html = NoNode
    /\ body = NoNode
    /\ i = 0
    /\ texts = <<>>
    /\ changed = FALSE
    /\ offset = 0
    /\ done = 0
    /\ ret = <<>>
    /\ nser = 0
    /\ ConvertIdle

\* Line 23
Parse ==
    /\ pc = "parse"
    /\ dom' = Node("Document", "", <<>>, parse_document(content))
    /\ pc' = "find_html"
    /\ UNCHANGED <<content, html, body, i, texts, changed, offset, done, ret, nser>>
    /\ UNCHANGED cvars

\* Line 25
FindHtml ==
    /\ pc = "find_html"
    /\ html' = find_child_element(dom, "html")
    /\ pc' = IF html' = NoNode THEN "panic_html" ELSE "find_body"
    /\ UNCHANGED <<content, dom, body, i, texts, changed, offset, done, ret, nser>>
    /\ UNCHANGED cvars

\* Line 26
FindBody ==
    /\ pc = "find_body"
    /\ body' = find_child_element(html, "body")
    /\ pc' = IF body' = NoNode THEN "panic_body" ELSE "scan"
    /\ UNCHANGED <<content, dom, html, i, texts, changed, offset, done, ret, nser>>
    /\ UNCHANGED cvars

\* Lines 32-40, one iteration
ScanChild ==
    /\ pc = "scan"
    /\ i < Len(body.children)
    /\ texts' = IF IsCandidate(body.children[i + 1])
                THEN Append(texts, [i |-> i, text |-> body.children[i + 1].contents])
                ELSE texts
    /\ i' = i + 1
    /\ UNCHANGED <<content, pc, dom, html, body, changed, offset, done, ret, nser>>
    /\ UNCHANGED cvars

\* Lines 32-43, the end of the first loop
ScanEnd ==
    /\ pc = "scan"
    /\ i = Len(body.children)
    /\ pc' = "splice"
    /\ UNCHANGED <<content, dom, html, body, i, texts, changed, offset, done, ret, nser>>
    /\ UNCHANGED cvars

\* Lines 44-63, one iteration
SpliceMatch ==
    /\ pc = "splice"
    /\ done < Len(texts)
    /\ LET m == texts[done + 1]
           st == SpliceOne(body.children, offset, m.i, m.text)
       IN /\ changed' = TRUE
          /\ body' = [body EXCEPT !.children = st.children]
          /\ offset' = st.offset
          /\ pc' = IF st.panic = "" THEN "splice" ELSE "panic_" \o st.panic
    /\ done' = done + 1
    /\ UNCHANGED <<content, dom, html, i, texts, ret, nser>>
    /\ UNCHANGED cvars

\* Line 63, the end of the second loop
SpliceEnd ==
    /\ pc = "splice"
    /\ done = Len(texts)
    /\ pc' = "return"
    /\ UNCHANGED <<content, dom, html, body, i, texts, changed, offset, done, ret, nser>>
    /\ UNCHANGED cvars

\* Mutant: the body is serialized before `changed` is looked at.
Return_SerializeFirst ==
    /\ pc = "return"
    /\ ret' = Result(changed, content, body)
    /\ nser' = nser + 1
    /\ pc' = IF changed THEN "rewritten" ELSE "unchanged"
    /\ UNCHANGED <<content, dom, html, body, i, texts, changed, offset, done>>
    /\ UNCHANGED cvars

\* Lines 65-73
Return ==
    /\ pc = "return"
    /\ ret' = Result(changed, content, body)
    /\ nser' = IF changed THEN nser + 1 ELSE nser
    /\ pc' = IF changed THEN "rewritten" ELSE "unchanged"
    /\ UNCHANGED <<content, dom, html, body, i, texts, changed, offset, done>>
    /\ UNCHANGED cvars

Next ==
    \/ Parse
    \/ FindHtml
    \/ FindBody
    \/ ScanChild
    \/ ScanEnd
    \/ SpliceMatch
    \/ SpliceEnd
    \/ Return

Spec == Init /\ [][Next]_vars

(***************************************************************************)
(* Vocabulary of the properties.  These definitions describe blank-line    *)
(* runs and segments by position in the payload, independently of the      *)
(* regex-driven split above.                                               *)
(***************************************************************************)
Parsed == pc # "parse"

Panicked == pc \in {"panic_html", "panic_body", "panic_remove", "panic_insert"}

Returned == pc \in {"unchanged", "rewritten"}

\* The positions at which the function still has a step to take: in every
\* reachable state, Running holds exactly when Next is enabled.
Running == pc \in {"parse", "find_html", "find_body", "scan", "splice", "return"}

RunningMeansEnabled == Running <=> ENABLED Next

\* The root container the parser left under html (body, or frameset) and
\* the children body had right after parsing.
OrigRoot == dom.children[Len(dom.children)].children[2]

OrigKids == OrigRoot.children

HasBody == Parsed /\ OrigRoot.name = "body"

\* The nodes the parser appended to the Document before the html element.
Hoisted == SubSeq(dom.children, 1, Len(dom.children) - 1)

HasBlankRun(t) == \E p \in 1..(Len(t) - 1) : t[p] = NL /\ t[p + 1] = NL

\* Position p holds a newline that has a newline next to it.
InRun(t, p) ==
    /\ t[p] = NL
    /\ \/ p > 1 /\ t[p - 1] = NL
       \/ p < Len(t) /\ t[p + 1] = NL

\* Position p is the first newline of a maximal run of two or more.
IsRunStart(t, p) == InRun(t, p) /\ (p = 1 \/ t[p - 1] # NL)

NumRuns(t) == Cardinality({p \in 1..Len(t) : IsRunStart(t, p)})

RunsBefore(t, p) == Cardinality({q \in 1..p : IsRunStart(t, q)})

SetMin(S) == CHOOSE x \in S : \A y \in S : x <= y

SetMax(S) == CHOOSE x \in S : \A y \in S : x >= y

\* The j-th segment (j = 0 .. NumRuns): the characters outside every run
\* that have exactly j runs to their left.
Seg(t, j) ==
    LET K == {p \in 1..Len(t) : ~InRun(t, p) /\ RunsBefore(t, p) = j}
    IN IF K = {} THEN <<>> ELSE SubSeq(t, SetMin(K), SetMax(K))

\* segment, marker, segment, ..., segment
Expansion(t) ==
    [n \in 1..(2 * NumRuns(t) + 1) |->
        IF n % 2 = 1 THEN text_node(Seg(t, (n - 1) \div 2)) ELSE p_node]

IsMatched(n) == n.type = "Text" /\ HasBlankRun(n.contents)

RECURSIVE ExpandAll(_)
ExpandAll(kids) ==
    IF kids = <<>> THEN <<>>
    ELSE (IF IsMatched(Head(kids)) THEN Expansion(Head(kids).contents) ELSE <<Head(kids)>>)
            \o ExpandAll(Tail(kids))

Count(s, x) == Cardinality({k \in DOMAIN s : s[k] = x})

\* The match the second loop handled last, and where its expansion starts
\* (0-based) in the current child list.
LastMatch == texts[done]

LastStart == LastMatch.i + offset - 2 * NumRuns(LastMatch.text)

RECURSIVE RunsUpTo(_)
RunsUpTo(n) == IF n = 0 THEN 0 ELSE NumRuns(texts[n].text) + RunsUpTo(n - 1)

(***************************************************************************)
(* C1: when no direct-child Text node of the parsed body contains two or   *)
(* more consecutive newlines, transform_html returns, and returns the      *)
(* input string exactly, whatever else the input contains.                 *)
(***************************************************************************)
C1_NoRunReturnsInput ==
    (HasBody /\ (Returned \/ Panicked) /\ \A k \in DOMAIN OrigKids : ~IsMatched(OrigKids[k]))
        => (pc = "unchanged" /\ ret = content)

\* An unchanged input holding an element with a nested blank-line run, whose
\* serialization would not have been the input.
C1_Witness ==
    /\ pc = "unchanged"
    /\ \E k \in DOMAIN OrigKids :
            /\ OrigKids[k].type = "Element"
            /\ \E c \in DOMAIN OrigKids[k].children : IsMatched(OrigKids[k].children[c])
    /\ serialize(OrigKids) # content

(***************************************************************************)
(* C2: a matched direct-child Text node with k >= 1 blank-line runs is     *)
(* replaced by exactly 2k+1 nodes, its k+1 segments as Text nodes,         *)
(* verbatim and in order, alternating with k empty p markers; a run at     *)
(* the start or end of the payload leaves an empty Text segment and still  *)
(* its marker, so "a\n\n" becomes "a<p></p>".                              *)
(***************************************************************************)
C2_MatchBecomesSegmentsAndMarkers ==
    /\ (done >= 1 /\ ~Panicked) =>
            LET t == LastMatch.text
                k == NumRuns(t)
            IN /\ k >= 1
               /\ LastStart >= 0
               /\ LastStart + 2 * k + 1 <= Len(body.children)
               /\ SubSeq(body.children, LastStart + 1, LastStart + 2 * k + 1) = Expansion(t)
               /\ Len(body.children) = Len(OrigKids) + 2 * RunsUpTo(done)
    /\ (pc = "rewritten" /\ content = <<"a", NL, NL>>) => ret = <<"a", "<p>", "</p>">>

\* A match with two runs, the second at the very end of the payload, has
\* been spliced: five nodes, the last an empty Text node.
C2_Witness ==
    /\ pc = "splice"
    /\ done >= 1
    /\ NumRuns(LastMatch.text) = 2
    /\ LastMatch.text[Len(LastMatch.text)] = NL
    /\ body.children[LastStart + 5] = text_node(<<>>)
    /\ body.children[LastStart + 4] = p_node

RECURSIVE TotalRuns(_)
TotalRuns(kids) ==
    IF kids = <<>> THEN 0
    ELSE (IF Head(kids).type = "Text" THEN NumRuns(Head(kids).contents) ELSE 0)
            + TotalRuns(Tail(kids))

\* The payload without the newlines that belong to a run.
RECURSIVE StripRuns(_, _)
StripRuns(t, p) ==
    IF p > Len(t) THEN <<>>
    ELSE (IF InRun(t, p) THEN <<>> ELSE <<t[p]>>) \o StripRuns(t, p + 1)

\* The direct-child text of a child list, run newlines left out.
RECURSIVE DirectText(_)
DirectText(kids) ==
    IF kids = <<>> THEN <<>>
    ELSE (IF Head(kids).type = "Text" THEN StripRuns(Head(kids).contents, 1) ELSE <<>>)
            \o DirectText(Tail(kids))

\* The direct-child text of a child list as it stands.
RECURSIVE RawText(_)
RawText(kids) ==
    IF kids = <<>> THEN <<>>
    ELSE (IF Head(kids).type = "Text" THEN Head(kids).contents ELSE <<>>)
            \o RawText(Tail(kids))

(***************************************************************************)
(* C3: a boundary is exactly a maximal run of two or more newlines: each   *)
(* run gives one marker whatever its length and none of its newlines       *)
(* stays in the segments next to the marker; a single newline gives no     *)
(* marker and stays where it was in its segment.                           *)
(***************************************************************************)
C3_BoundaryIsMaximalRun ==
    pc \in {"return", "rewritten"} =>
        LET kids == body.children
        IN /\ Count(kids, p_node) = TotalRuns(OrigKids)
           /\ RawText(kids) = DirectText(OrigKids)
           /\ \A k \in DOMAIN kids :
                (kids[k].type = "Text" /\ kids[k].contents # <<>>) =>
                    LET t == kids[k].contents
                    IN /\ (k > 1 /\ kids[k - 1] = p_node) => t[1] # NL
                       /\ (k < Len(kids) /\ kids[k + 1] = p_node) => t[Len(t)] # NL

\* A payload with a single newline and a run of three has been rewritten.
C3_Witness ==
    /\ pc = "rewritten"
    /\ \E k \in DOMAIN OrigKids :
            /\ OrigKids[k].type = "Text"
            /\ LET t == OrigKids[k].contents
               IN /\ \E p \in 1..(Len(t) - 2) : t[p] = NL /\ t[p + 1] = NL /\ t[p + 2] = NL
                  /\ \E p \in 1..Len(t) : t[p] = NL /\ ~InRun(t, p)
                  /\ NumRuns(t) = 1

Untouchable(kids) == SelectSeq(kids, LAMBDA n : n.type # "Text" /\ n # p_node)

HoldsNestedRun(n) ==
    /\ n.type = "Element"
    /\ \E c \in DOMAIN n.children : IsMatched(n.children[c])

(***************************************************************************)
(* C4: only body's direct children are eligible.  Every element (with all  *)
(* text nested in it) and every comment of body is left exactly as parsed  *)
(* and in the same order, even when it holds blank-line runs, while a      *)
(* direct-child Text node with a run that follows such an element is       *)
(* split.                                                                  *)
(***************************************************************************)
C4_NestedTextUntouched ==
    /\ (pc \in {"scan", "splice", "return", "rewritten", "unchanged"}) =>
            Untouchable(body.children) = Untouchable(OrigKids)
    /\ (pc \in {"return", "rewritten"}) =>
            \A j \in 1..(Len(OrigKids) - 1) :
                (OrigKids[j].type = "Element" /\ IsMatched(OrigKids[j + 1])) =>
                    \E q \in 1..(Len(body.children) - 2) :
                        /\ body.children[q] = OrigKids[j]
                        /\ body.children[q + 1] = text_node(Seg(OrigKids[j + 1].contents, 0))
                        /\ body.children[q + 2] = p_node

\* An element holding a nested run, followed by a matched Text node, after
\* the rewrite: the element is still there, the following text was split.
C4_Witness ==
    /\ pc = "rewritten"
    /\ \E j \in 1..(Len(OrigKids) - 1) :
            /\ HoldsNestedRun(OrigKids[j])
            /\ IsMatched(OrigKids[j + 1])
            /\ \E q \in DOMAIN body.children : body.children[q] = OrigKids[j]

(***************************************************************************)
(* C5: on the rewritten path the result is the serialization of body's     *)
(* children only, so a comment the parser appended to the Document is      *)
(* missing from it; on the unchanged path the comment is kept, because     *)
(* the input itself is returned.                                           *)
(***************************************************************************)
C5_HoistedCommentDropped ==
    /\ pc = "rewritten" =>
            /\ ret = serialize(body.children)
            /\ Count(ret, CommentLexeme) = Count(content, CommentLexeme) - Len(Hoisted)
    /\ pc = "unchanged" =>
            /\ ret = content
            /\ Count(ret, CommentLexeme) = Count(content, CommentLexeme)
    /\ (Returned /\ content = <<CommentLexeme, "a", NL, NL, "&">>)
            => ret = <<"a", "<p>", "</p>", "&amp;">>
    /\ (Returned /\ content = <<CommentLexeme, "a">>) => ret = <<CommentLexeme, "a">>

\* A rewritten input whose leading comment went to the Document.
C5_Witness ==
    /\ pc = "rewritten"
    /\ Len(Hoisted) > 0
    /\ content[1] = CommentLexeme
    /\ Count(ret, CommentLexeme) = 0

Spellings(tag) ==
    CASE tag = "html" -> {"html", "HTML", "Html"}
      [] tag = "body" -> {"body", "BODY", "Body"}

Matches(n, tag) == n.type = "Element" /\ n.name \in Spellings(tag)

\* r is what the contract allows for the child list kids and the tag.
FindContract(kids, tag, r) ==
    IF \E k \in DOMAIN kids : Matches(kids[k], tag)
    THEN \E k \in DOMAIN kids :
            /\ r = kids[k]
            /\ Matches(kids[k], tag)
            /\ \A j \in 1..(k - 1) : ~Matches(kids[j], tag)
    ELSE r = NoNode

\* Parents beyond what the parser builds: other spellings, matches below
\* the first level, several matches.
SampleChildren ==
    { text_node(<<"a">>), comment_node(<<" ", " ">>), Elem("head", <<>>),
      Elem("HTML", <<>>), Elem("body", <<text_node(<<"a">>)>>), Elem("Body", <<>>),
      Elem("b", <<Elem("body", <<>>), Elem("html", <<>>)>>) }

SampleParents ==
    { Node("Element", "x", <<>>, kids) :
        kids \in UNION {[1..n -> SampleChildren] : n \in 0..2} }

\* find_child_element meets its contract on every sample parent.
FindContractOnSamples ==
    \A parent \in SampleParents : \A tag \in {"html", "body"} :
        FindContract(parent.children, tag, find_child_element(parent, tag))

(***************************************************************************)
(* C6: find_child_element returns the first direct child that is an        *)
(* Element whose tag equals the target ignoring ASCII case, never a Text   *)
(* or Comment child, a deeper descendant or a later match, and fails       *)
(* fatally when no direct child matches; transform_html neither scans nor  *)
(* splices unless html and body were both found.                           *)
(***************************************************************************)
C6_FindChildElement ==
    /\ pc \notin {"parse", "find_html"} => FindContract(dom.children, "html", html)
    /\ pc \in {"scan", "panic_body"} => FindContract(html.children, "body", body)
    /\ pc = "panic_html" <=> (pc \notin {"parse", "find_html"} /\ html = NoNode)
    /\ pc = "panic_body" <=>
            (pc \notin {"parse", "find_html", "find_body", "panic_html"} /\ body = NoNode)
    /\ pc \in {"panic_html", "panic_body"} =>
            i = 0 /\ texts = <<>> /\ done = 0 /\ ~changed /\ ret = <<>> /\ nser = 0
    /\ (i > 0 \/ texts # <<>> \/ done > 0 \/ changed \/ nser > 0
            \/ pc \in {"scan", "splice", "return", "rewritten", "unchanged"}) =>
            /\ Matches(html, "html")
            /\ Matches(body, "body")
            /\ HasBody
    /\ FindContractOnSamples

\* html was found behind a Comment child of the Document, body was not
\* found among the children of html, and the call failed.
C6_Witness ==
    /\ pc = "panic_body"
    /\ Len(dom.children) > 1
    /\ dom.children[1].type = "Comment"
    /\ html = dom.children[Len(dom.children)]
    /\ body = NoNode

\* kids with its first n matched Text nodes replaced by their expansions.
RECURSIVE ExpandFirst(_, _)
ExpandFirst(kids, n) ==
    IF kids = <<>> THEN <<>>
    ELSE IF IsMatched(Head(kids)) /\ n > 0
         THEN Expansion(Head(kids).contents) \o ExpandFirst(Tail(kids), n - 1)
         ELSE <<Head(kids)>> \o ExpandFirst(Tail(kids), n)

\* The original indices (0-based) of the matched Text nodes, ascending.
MatchedIndices == {k \in 0..(Len(OrigKids) - 1) : IsMatched(OrigKids[k + 1])}

(***************************************************************************)
(* C8: with any number of matches, handled in ascending original index     *)
(* with the running offset: when a match (original_index, text) is about   *)
(* to be spliced, the child at original_index + offset of the current      *)
(* list is the recorded Text node, every removal and insertion index is    *)
(* within the list, and after the pass the child list is the original one  *)
(* with each matched Text node replaced in place by its expansion, all     *)
(* other children in their order and unchanged.                            *)
(***************************************************************************)
C8_OffsetKeepsSplicesInPlace ==
    /\ pc \notin {"panic_remove", "panic_insert"}
    /\ pc \in {"splice", "return", "rewritten"} =>
            /\ {texts[n].i : n \in DOMAIN texts} = MatchedIndices
            /\ \A n \in 1..(Len(texts) - 1) : texts[n].i < texts[n + 1].i
            /\ \A n \in DOMAIN texts : text_node(texts[n].text) = OrigKids[texts[n].i + 1]
            /\ body.children = ExpandFirst(OrigKids, done)
    /\ (pc = "splice" /\ done < Len(texts)) =>
            LET m == texts[done + 1]
                at == m.i + offset
            IN /\ at >= 0
               /\ at < Len(body.children)
               /\ body.children[at + 1] = text_node(m.text)
    /\ pc \in {"return", "rewritten"} =>
            /\ done = Len(texts)
            /\ body.children = ExpandAll(OrigKids)

\* The second of two matches is about to be spliced at a shifted position.
C8_Witness ==
    /\ pc = "splice"
    /\ Len(texts) = 2
    /\ done = 1
    /\ offset > 0
    /\ body.children[texts[2].i + offset + 1] = text_node(texts[2].text)
    /\ body.children[texts[2].i + 1] # text_node(texts[2].text)

C9_PathFacts ==
    /\ Returned => (pc = "rewritten" <=> texts # <<>>)
    /\ Returned => {texts[n].i : n \in DOMAIN texts} = MatchedIndices
    /\ pc = "unchanged" => body.children = OrigKids /\ ~changed /\ done = 0 /\ ret = content
    /\ pc = "scan" => body.children = OrigKids /\ done = 0 /\ ~changed
    /\ (body # NoNode /\ body.children # OrigKids) =>
            /\ pc \in {"splice", "return", "rewritten"}
            /\ i = Len(OrigKids)
            /\ done >= 1
    /\ nser = (IF pc = "rewritten" THEN 1 ELSE 0)
    /\ pc = "rewritten" =>
            /\ done = Len(texts)
            /\ changed
            /\ body.children = ExpandAll(OrigKids)
            /\ ret = serialize(body.children)

(***************************************************************************)
(* C9, as it holds of the code: every invocation that finds html and body  *)
(* ends in exactly one of the two terminal states, rewritten if and only   *)
(* if the scan recorded at least one match and unchanged otherwise (an     *)
(* invocation that finds no body fails fatally before the scan instead).   *)
(* On the unchanged path no child list is mutated and nothing is           *)
(* serialized; on the rewritten path the scan is complete before the       *)
(* first mutation and the body is serialized exactly once, after the last  *)
(* splice of the last match.                                               *)
(***************************************************************************)
C9_TwoTerminalStatesWhenBodyFound ==
    /\ C9_PathFacts
    /\ HasBody => (Returned \/ Running)
    /\ Parsed => (HasBody \/ pc \in {"find_html", "find_body", "panic_body"})

\* Two matches were spliced and the body was then serialized, once.
C9_Witness ==
    /\ pc = "rewritten"
    /\ Len(texts) = 2
    /\ done = 2
    /\ nser = 1

\* C9 as stated: every invocation, whatever the input, ends in one of the
\* two terminal states.
C9_EveryInvocationReturns ==
    /\ C9_PathFacts
    /\ Returned \/ Running

(***************************************************************************)
(* convert (main.rs).  A link or path string is a sequence of lexemes:     *)
(* names and the separator "/".  PathBuf compares, hashes and takes        *)
(* parents by components, so a path is kept as its component sequence.     *)
(***************************************************************************)
MaxItems == 2

Statuses == {"Publish", "Draft", "Inherit", "Private"}

PostTypes == {"Attachment", "Post", "Other"}

base_url == <<"https:", "/", "/", "example.com">>

output_dir == <<"output">>

Links ==
    { base_url \o <<"/", "post1">>,
      base_url \o <<"/", "news", "/", "post1">>,
      base_url \o <<"/", "news", "/", "post2", "/">>,
      <<"http:", "/", "/", "example.com", "/", "post1">> }

Item == [status : Statuses, post_type : PostTypes, link : Links]

IsPrefix(pre, str) == Len(pre) <= Len(str) /\ SubSeq(str, 1, Len(pre)) = pre

\* str::trim_start_matches: the prefix is removed as often as it occurs.
RECURSIVE trim_start_matches(_, _)
trim_start_matches(str, pre) ==
    IF pre # <<>> /\ IsPrefix(pre, str)
    THEN trim_start_matches(SubSeq(str, Len(pre) + 1, Len(str)), pre)
    ELSE str

\* str::trim_matches('/')
RECURSIVE trim_matches(_)
trim_matches(str) ==
    IF str # <<>> /\ Head(str) = "/" THEN trim_matches(Tail(str))
    ELSE IF str # <<>> /\ str[Len(str)] = "/" THEN trim_matches(SubSeq(str, 1, Len(str) - 1))
    ELSE str

\* format!("{}.md", ..)
WithMd(str) ==
    IF str = <<>> THEN <<".md">> ELSE [str EXCEPT ![Len(str)] = @ \o ".md"]

\* Path::components: the names between separators.
Components(str) == SelectSeq(str, LAMBDA x : x # "/")

\* Lines 227-232, as the components of the PathBuf.
generate_path(base, link) == Components(WithMd(trim_matches(trim_start_matches(link, base))))

\* Line 81: output_dir.join(..) of a relative path.
PathOf(item) == Components(output_dir) \o generate_path(base_url, item.link)

\* Line 84: path.parent()
Parent(path) == SubSeq(path, 1, Len(path) - 1)

\* Mutant: the status test is lost, every item of type Post is converted.
IsConverted_AnyStatus(item) == item.post_type = "Post"

\* Lines 75-80: only a published item of type Post reaches the Post arm.
IsConverted(item) == item.status = "Publish" /\ item.post_type = "Post"

\* Mutant: the set is not consulted, the section file is written every time.
FirstTime_Always(seen, section) == TRUE

\* Line 90: HashSet::insert returns true when the value was not yet present.
FirstTime(seen, section) == section \notin seen

\* One Fs call as the fake Fs of the tests records it, with the item that
\* caused it and the io::Result it returned.
Call(op, path, by, ok) == [op |-> op, path |-> path, by |-> by, ok |-> ok]

TransformIdle ==
    /\ content = <<>>
    /\ pc = "idle"
    /\ dom = NoNode
    /\ html = NoNode
    /\ body = NoNode
    /\ i = 0
    /\ texts = <<>>
    /\ changed = FALSE
    /\ offset = 0
    /\ done = 0
    /\ ret = <<>>
    /\ nser = 0

InitConvert ==
    /\ items \in UNION {[1..n -> Item] : n \in 0..MaxItems}
    /\ cpc = "open"
    /\ idx = 0
    /\ sections = {}
    /\ calls = <<>>
    /\ TransformIdle

\* Lines 63-64: fs.open(..)? returns an error, or the file does not parse
\* ("cannot parse xml"), or the items are read.
Open ==
    /\ cpc = "open"
    /\ \E outcome \in {"next", "err", "panic"} : cpc' = outcome
    /\ UNCHANGED <<items, idx, sections, calls>>
    /\ UNCHANGED tvars

\* Lines 75-78 and 103-104: the item is skipped.
SkipItem ==
    /\ cpc = "next"
    /\ idx < Len(items)
    /\ ~IsConverted(items[idx + 1])
    /\ idx' = idx + 1
    /\ UNCHANGED <<items, cpc, sections, calls>>
    /\ UNCHANGED tvars

\* Lines 81-87: fs.create_dir_all(section)?
CreateDirAll ==
    /\ cpc = "next"
    /\ idx < Len(items)
    /\ IsConverted(items[idx + 1])
    /\ \E ok \in BOOLEAN :
        /\ calls' = Append(calls, Call("create_dir_all", Parent(PathOf(items[idx + 1])), idx + 1, ok))
        /\ cpc' = IF ok THEN "section" ELSE "err"
    /\ UNCHANGED <<items, idx, sections>>
    /\ UNCHANGED tvars

\* Lines 90-92, the section is new: fs.create_section(section)?
CreateSection ==
    /\ cpc = "section"
    /\ LET section == Parent(PathOf(items[idx + 1]))
       IN /\ FirstTime(sections, section)
          /\ sections' = sections \cup {section}
          /\ \E ok \in BOOLEAN :
                /\ calls' = Append(calls, Call("create_section", section, idx + 1, ok))
                /\ cpc' = IF ok THEN "page" ELSE "err"
    /\ UNCHANGED <<items, idx>>
    /\ UNCHANGED tvars

\* Lines 90-92, the section was seen before.
KnownSection ==
    /\ cpc = "section"
    /\ ~FirstTime(sections, Parent(PathOf(items[idx + 1])))
    /\ cpc' = "page"
    /\ UNCHANGED <<items, idx, sections, calls>>
    /\ UNCHANGED tvars

\* Lines 94-97: the pubDate does not parse, or the item has no content.
PanicInItem ==
    /\ cpc = "page"
    /\ cpc' = "panic"
    /\ UNCHANGED <<items, idx, sections, calls>>
    /\ UNCHANGED tvars

\* Lines 94-101: fs.create_page(..)?
CreatePage ==
    /\ cpc = "page"
    /\ \E ok \in BOOLEAN :
        /\ calls' = Append(calls, Call("create_page", PathOf(items[idx + 1]), idx + 1, ok))
        /\ cpc' = IF ok THEN "next" ELSE "err"
        /\ idx' = IF ok THEN idx + 1 ELSE idx
    /\ UNCHANGED <<items, sections>>
    /\ UNCHANGED tvars

\* Line 107
Finish ==
    /\ cpc = "next"
    /\ idx = Len(items)
    /\ cpc' = "done"
    /\ UNCHANGED <<items, idx, sections, calls>>
    /\ UNCHANGED tvars

NextConvert ==
    \/ Open
    \/ SkipItem
    \/ CreateDirAll
    \/ CreateSection
    \/ KnownSection
    \/ PanicInItem
    \/ CreatePage
    \/ Finish

SpecConvert == InitConvert /\ [][NextConvert]_vars

PublishedPost(item) == item.status = "Publish" /\ item.post_type = "Post"

CallsOf(k) == SelectSeq(calls, LAMBDA c : c.by = k)

(***************************************************************************)
(* C7: convert performs filesystem operations (create_dir_all,             *)
(* create_section, create_page) only for items whose status is Publish     *)
(* and whose post type is Post; an item with any other status or any       *)
(* other post type causes no filesystem operation at all.                  *)
(***************************************************************************)
C7_OnlyPublishedPostsTouchFs ==
    /\ \A n \in DOMAIN calls :
            /\ calls[n].by \in DOMAIN items
            /\ calls[n].op \in {"create_dir_all", "create_section", "create_page"}
            /\ items[calls[n].by].status = "Publish"
            /\ items[calls[n].by].post_type = "Post"
    /\ \A k \in DOMAIN items : ~PublishedPost(items[k]) => CallsOf(k) = <<>>
    /\ \A k \in 1..idx : PublishedPost(items[k]) => CallsOf(k) # <<>>
    /\ (cpc = "done" /\ \A k \in DOMAIN items : ~PublishedPost(items[k])) => calls = <<>>

\* A run over a post that is not published and a published post is complete:
\* the calls are those of the published post alone.
C7_Witness ==
    /\ cpc = "done"
    /\ Len(items) = 2
    /\ items[1].post_type = "Post"
    /\ items[1].status # "Publish"
    /\ PublishedPost(items[2])
    /\ Len(calls) = 3
    /\ \A n \in DOMAIN calls : calls[n].by = 2

SectionOf(item) == Parent(PathOf(item))

\* The published posts before item k that lie in the directory of item k.
EarlierInSection(k) ==
    {j \in 1..(k - 1) : PublishedPost(items[j]) /\ SectionOf(items[j]) = SectionOf(items[k])}

\* What a post that went through the loop body has called, in order.
ExpectedOps(k) ==
    IF EarlierInSection(k) = {}
    THEN <<"create_dir_all", "create_section", "create_page">>
    ELSE <<"create_dir_all", "create_page">>

OpsOf(k) == [n \in 1..Len(CallsOf(k)) |-> CallsOf(k)[n].op]

(***************************************************************************)
(* C10: across the published posts, create_section is called exactly once  *)
(* per distinct section directory: on the first post whose path lies in    *)
(* that directory, right after create_dir_all for the directory and        *)
(* before that post's create_page.  Later posts in the directory call      *)
(* create_dir_all and create_page and never create_section again, and no   *)
(* create_page happens in a directory whose section file was not created.  *)
(***************************************************************************)
C10_SectionOncePerDirectory ==
    /\ \A m, n \in DOMAIN calls :
            (m < n /\ calls[m].op = "create_section" /\ calls[n].op = "create_section")
                => calls[m].path # calls[n].path
    /\ \A n \in DOMAIN calls : calls[n].op = "create_section" =>
            /\ EarlierInSection(calls[n].by) = {}
            /\ calls[n].path = SectionOf(items[calls[n].by])
            /\ n > 1
            /\ calls[n - 1] = Call("create_dir_all", calls[n].path, calls[n].by, TRUE)
    /\ \A n \in DOMAIN calls : calls[n].op = "create_page" =>
            /\ calls[n].path = PathOf(items[calls[n].by])
            /\ \E m \in 1..(n - 1) :
                    /\ calls[m].op = "create_section"
                    /\ calls[m].path = Parent(calls[n].path)
                    /\ calls[m].ok
            /\ \E m \in 1..(n - 1) :
                    calls[m] = Call("create_dir_all", Parent(calls[n].path), calls[n].by, TRUE)
    /\ \A k \in 1..idx : PublishedPost(items[k]) => OpsOf(k) = ExpectedOps(k)
    /\ \A k \in DOMAIN items : PublishedPost(items[k]) =>
            \E n \in 0..Len(ExpectedOps(k)) : OpsOf(k) = SubSeq(ExpectedOps(k), 1, n)
    /\ \A m, n \in DOMAIN calls : m < n => calls[m].by <= calls[n].by
    /\ cpc = "done" =>
            Cardinality({n \in DOMAIN calls : calls[n].op = "create_section"})
                = Cardinality({SectionOf(items[k]) : k \in {j \in DOMAIN items : PublishedPost(items[j])}})

\* Two published posts in the same directory went through: five calls, the
\* section file written once, for the first post.
C10_Witness ==
    /\ cpc = "done"
    /\ Len(items) = 2
    /\ PublishedPost(items[1])
    /\ PublishedPost(items[2])
    /\ items[1].link # items[2].link
    /\ SectionOf(items[1]) = SectionOf(items[2])
    /\ [n \in 1..Len(calls) |-> calls[n].op]
            = <<"create_dir_all", "create_section", "create_page", "create_dir_all", "create_page">>

\* The two-newline separator value of line 50, as line 51 compares it.
Separator == <<NL, NL>>

\* Where (0-based) the expansion of the n-th recorded match begins in the
\* child list after the pass: its original index, shifted by what the
\* expansions of the matches before it added.
RECURSIVE ExpansionStart(_)
ExpansionStart(n) ==
    IF n = 1 THEN texts[1].i
    ELSE ExpansionStart(n - 1) + (texts[n].i - texts[n - 1].i)
         + 2 * NumRuns(texts[n - 1].text)

\* The chunks of a payload alternate: segments at the odd positions, none
\* of them the separator value and none holding a run, the separator value
\* at the even positions; a segment becomes a Text node, a separator a marker.
ChunksAlternate(text) ==
    LET pieces == split(text)
        chunks == Chunks(text)
    IN /\ Len(chunks) = 2 * Len(pieces) - 1
       /\ \A j \in DOMAIN chunks :
            IF j % 2 = 1
            THEN /\ chunks[j] = pieces[(j + 1) \div 2]
                 /\ chunks[j] # Separator
                 /\ ~HasBlankRun(chunks[j])
                 /\ ChunkNode(chunks[j]) = text_node(chunks[j])
            ELSE /\ chunks[j] = Separator
                 /\ ChunkNode(chunks[j]) = p_node

(***************************************************************************)
(* C11: after the splice pass no direct-child Text node of body contains   *)
(* a run of two or more consecutive newlines, and no two Text nodes        *)
(* produced from the same payload are adjacent: no segment returned by     *)
(* the split equals the two-newline separator value, so segments become    *)
(* Text nodes and separators become markers, alternating in the child      *)
(* list; scanning the resulting child list again records no match.         *)
(***************************************************************************)
C11_SpliceLeavesNoMatch ==
    pc \in {"return", "rewritten"} =>
        /\ \A k \in DOMAIN body.children :
                body.children[k].type = "Text" => ~HasBlankRun(body.children[k].contents)
        /\ \A n \in DOMAIN texts :
                LET chunks == Chunks(texts[n].text)
                    start == ExpansionStart(n)
                IN /\ ChunksAlternate(texts[n].text)
                   /\ start + Len(chunks) <= Len(body.children)
                   /\ \A j \in DOMAIN chunks :
                        body.children[start + j].type = (IF j % 2 = 1 THEN "Text" ELSE "Element")
                   /\ \A j \in 1..(Len(chunks) - 1) :
                        ~(body.children[start + j].type = "Text"
                          /\ body.children[start + j + 1].type = "Text")
        /\ \A k \in DOMAIN body.children : ~IsCandidate(body.children[k])

\* Two payloads were spliced, one of them with an empty segment, and the
\* child list that results holds Text nodes but none that a scan would record.
C11_Witness ==
    /\ pc = "rewritten"
    /\ Len(texts) = 2
    /\ \E n \in DOMAIN texts : \E j \in DOMAIN split(texts[n].text) : split(texts[n].text)[j] = <<>>
    /\ \E k \in DOMAIN body.children : body.children[k].type = "Text"
    /\ \A k \in DOMAIN body.children : ~IsCandidate(body.children[k])

====
